---- MODULE Spec2Model ----
(***************************************************************************)
(* Model of the example handlers of pulumi-aws-lambify                     *)
(* (src/examples/basic): the emoji layer (layers/emoji/emoji_layer.py) and *)
(* the six API handlers under api/.                                        *)
(*                                                                         *)
(* A Python str is a sequence of one-character strings, so that lower(),   *)
(* strip(), f-string interpolation, json.dumps and json.loads are computed *)
(* character by character.  A Python value is a record                     *)
(*     [t |-> type name, s |-> text, items |-> <<<<key, value>>, ...>>]    *)
(* (s is the content of a str and the digits of an int; items are the      *)
(* entries of a dict, in insertion order, and the elements of a list).     *)
(***************************************************************************)
EXTENDS Integers, Sequences, FiniteSets, TLC

VARIABLES
    MOOD_EMOJI_MAP, \* emoji_layer.MOOD_EMOJI_MAP: <<<<mood, glyph>>, ...>> in insertion order
    invoked,        \* the handler of the last invocation ("none" before the first)
    event,          \* the event of the last invocation
    outcome,        \* what the last invocation did: returned a response or raised
    lookups,        \* number of reads of MOOD_EMOJI_MAP made by the last invocation
    written,        \* whether the PUT handler has been invoked
    listed,         \* result of the last get_available_moods() call
    arg,            \* layer calls: a mood string
    variant,        \* layer calls: arg with letter case and surrounding whitespace changed
    glyphs          \* layer calls: <<get_emoji_for_mood(arg), get_emoji_for_mood(variant)>>

vars == <<MOOD_EMOJI_MAP, invoked, event, outcome, lookups, written, listed, arg, variant, glyphs>>

(***************************************************************************)
(* Bounds                                                                  *)
(***************************************************************************)
\* longest mood string drawn as an input
MaxMoodLen == 3
\* longest variant of a mood (case swapped, whitespace added around it)
MaxVariantLen == 5
\* longest numeric path parameter drawn as an input
MaxNumLen == 3

(***************************************************************************)
(* Python str operations                                                   *)
(***************************************************************************)
UPPER == <<"A", "B", "C", "D", "E", "F", "G", "H", "I", "J", "K", "L", "M",
           "N", "O", "P", "Q", "R", "S", "T", "U", "V", "W", "X", "Y", "Z">>
LOWER == <<"a", "b", "c", "d", "e", "f", "g", "h", "i", "j", "k", "l", "m",
           "n", "o", "p", "q", "r", "s", "t", "u", "v", "w", "x", "y", "z">>

\* the ASCII characters str.strip() removes (TLA+ has no escape for \v)
WHITESPACE == {" ", "\t", "\n", "\r", "\f"}

lower_char(c) ==
    IF \E i \in 1..26 : UPPER[i] = c
    THEN LOWER[CHOOSE i \in 1..26 : UPPER[i] = c]
    ELSE c

\* str.lower()
py_lower(s) == [i \in 1..Len(s) |-> lower_char(s[i])]

RECURSIVE py_lstrip(_)
py_lstrip(s) ==
    IF s # <<>> /\ Head(s) \in WHITESPACE THEN py_lstrip(Tail(s)) ELSE s

RECURSIVE py_rstrip(_)
py_rstrip(s) ==
    IF s # <<>> /\ s[Len(s)] \in WHITESPACE
    THEN py_rstrip(SubSeq(s, 1, Len(s) - 1))
    ELSE s

\* .lstrip() in the place of .strip()
py_strip_left_only(s) == py_lstrip(s)

\* str.strip()
py_strip(s) == py_rstrip(py_lstrip(s))

(***************************************************************************)
(* layers/emoji/emoji_layer.py                                             *)
(* Each glyph is one non-ASCII character, written here by its name.        *)
(***************************************************************************)
InitialMap ==
    << <<<<"h", "a", "p", "p", "y">>, <<"GRINNING">>>>,
       <<<<"s", "a", "d">>, <<"CRYING_FACE">>>>,
       <<<<"a", "n", "g", "r", "y">>, <<"ANGRY_FACE">>>>,
       <<<<"e", "x", "c", "i", "t", "e", "d">>, <<"STAR_STRUCK">>>>,
       <<<<"l", "o", "v", "e">>, <<"RED_HEART">>>>,
       <<<<"c", "o", "n", "f", "u", "s", "e", "d">>, <<"CONFUSED_FACE">>>>,
       <<<<"s", "u", "r", "p", "r", "i", "s", "e", "d">>, <<"ASTONISHED">>>>,
       <<<<"t", "i", "r", "e", "d">>, <<"SLEEPING">>>>,
       <<<<"c", "o", "o", "l">>, <<"SUNGLASSES">>>>,
       <<<<"w", "o", "r", "r", "i", "e", "d">>, <<"WORRIED_FACE">>>>,
       <<<<"l", "a", "u", "g", "h", "i", "n", "g">>, <<"TEARS_OF_JOY">>>>,
       <<<<"w", "i", "n", "k">>, <<"WINKING">>>>,
       <<<<"n", "e", "u", "t", "r", "a", "l">>, <<"NEUTRAL_FACE">>>>,
       <<<<"t", "h", "i", "n", "k", "i", "n", "g">>, <<"THINKING_FACE">>>>,
       <<<<"c", "e", "l", "e", "b", "r", "a", "t", "i", "o", "n">>, <<"PARTY_POPPER">>>>,
       <<<<"h", "e", "a", "r", "t", "_", "e", "y", "e", "s">>, <<"HEART_EYES">>>>,
       <<<<"c", "r", "y", "i", "n", "g">>, <<"LOUDLY_CRYING">>>>,
       <<<<"s", "i", "c", "k">>, <<"THERMOMETER_FACE">>>>,
       <<<<"c", "r", "a", "z", "y">>, <<"ZANY_FACE">>>>,
       <<<<"r", "o", "b", "o", "t">>, <<"ROBOT_FACE">>>> >>

\* the default of the .get() on line 42
SHRUG == <<"SHRUG">>

\* the non-ASCII characters of the model
GLYPH_CHARS == {MOOD_EMOJI_MAP_entry[2][1] : MOOD_EMOJI_MAP_entry \in
                    {InitialMap[i] : i \in 1..Len(InitialMap)}} \cup {"SHRUG", "SKULL"}

\* key in d
dict_has(items, k) == \E i \in 1..Len(items) : items[i][1] = k

\* d.get(k, default) on the entries of a dict
dict_get(items, k, default) ==
    IF dict_has(items, k)
    THEN items[CHOOSE i \in 1..Len(items) : items[i][1] = k][2]
    ELSE default

\* mood_lower without the .strip()
mood_lower_no_strip(m) == py_lower(m)

\* the local mood_lower of get_emoji_for_mood (line 39)
mood_lower(m) == py_strip(py_lower(m))

get_emoji_for_mood(map, m) == dict_get(map, mood_lower(m), SHRUG)

get_available_moods(map) == [i \in 1..Len(map) |-> map[i][1]]

(***************************************************************************)
(* Python values                                                           *)
(***************************************************************************)
PyNone == [t |-> "NoneType", s |-> <<>>, items |-> <<>>]
PyBool(b) == [t |-> "bool", s |-> IF b THEN <<"T", "r", "u", "e">> ELSE <<"F", "a", "l", "s", "e">>,
              items |-> <<>>]
PyInt(digits) == [t |-> "int", s |-> digits, items |-> <<>>]
PyStr(chars) == [t |-> "str", s |-> chars, items |-> <<>>]
PyList(elems) == [t |-> "list", s |-> <<>>, items |-> [i \in 1..Len(elems) |-> <<<<>>, elems[i]>>]]
PyDict(entries) == [t |-> "dict", s |-> <<>>, items |-> entries]
\* a key a dict does not hold (not a Python value)
Missing == [t |-> "missing", s |-> <<>>, items |-> <<>>]

\* bool(v)
py_truthy(v) ==
    CASE v.t = "NoneType" -> FALSE
      [] v.t = "bool" -> v.s = <<"T", "r", "u", "e">>
      [] v.t = "int" -> v.s # <<"0">>
      [] v.t = "str" -> v.s # <<>>
      [] OTHER -> v.items # <<>>

RECURSIVE concat(_)
\* "".join(parts)
concat(parts) == IF parts = <<>> THEN <<>> ELSE Head(parts) \o concat(Tail(parts))

RECURSIVE join(_, _)
\* sep.join(parts)
join(sep, parts) ==
    IF parts = <<>> THEN <<>>
    ELSE IF Len(parts) = 1 THEN parts[1]
    ELSE parts[1] \o sep \o join(sep, Tail(parts))

\* repr() of a str: single quotes unless the text holds ' and no "
repr_str(chars) ==
    LET q == IF (\E i \in 1..Len(chars) : chars[i] = "'")
                /\ ~(\E i \in 1..Len(chars) : chars[i] = "\"") THEN "\"" ELSE "'"
        esc(c) == CASE c = "\\" -> <<"\\", "\\">>
                    [] c = q -> <<"\\", c>>
                    [] c = "\n" -> <<"\\", "n">>
                    [] c = "\t" -> <<"\\", "t">>
                    [] c = "\r" -> <<"\\", "r">>
                    [] c = "\f" -> <<"\\", "x", "0", "c">>
                    [] OTHER -> <<c>>
    IN <<q>> \o concat([i \in 1..Len(chars) |-> esc(chars[i])]) \o <<q>>

RECURSIVE py_repr(_)
\* repr(v)
py_repr(v) ==
    CASE v.t = "str" -> repr_str(v.s)
      [] v.t = "NoneType" -> <<"N", "o", "n", "e">>
      [] v.t = "list" ->
            <<"[">> \o join(<<",", " ">>, [i \in 1..Len(v.items) |-> py_repr(v.items[i][2])]) \o <<"]">>
      [] v.t = "dict" ->
            <<"{">> \o join(<<",", " ">>, [i \in 1..Len(v.items) |->
                        repr_str(v.items[i][1]) \o <<":", " ">> \o py_repr(v.items[i][2])]) \o <<"}">>
      [] OTHER -> v.s

\* str(v), the conversion an f-string applies
py_str(v) == IF v.t = "str" THEN v.s ELSE py_repr(v)

(***************************************************************************)
(* json.dumps and json.loads (standard library), on the JSON the model     *)
(* uses: objects, arrays, strings, integers, true, false, null.  The       *)
(* escape \uXXXX of a non-ASCII character c is written <<"\\", "u", c>>:   *)
(* c stands for its own hexadecimal digits.                                *)
(***************************************************************************)
DIGITS == {"0", "1", "2", "3", "4", "5", "6", "7", "8", "9"}
JSON_WS == {" ", "\t", "\n", "\r"}
\* characters below U+0020, which a JSON string must escape
CONTROL == {"\t", "\n", "\r", "\f"}

\* json.dumps of one character of a str (ensure_ascii=True)
json_escape_char(c) ==
    CASE c = "\"" -> <<"\\", "\"">>
      [] c = "\\" -> <<"\\", "\\">>
      [] c = "\n" -> <<"\\", "n">>
      [] c = "\t" -> <<"\\", "t">>
      [] c = "\r" -> <<"\\", "r">>
      [] c = "\f" -> <<"\\", "f">>
      [] c \in GLYPH_CHARS -> <<"\\", "u", c>>
      [] OTHER -> <<c>>

json_dumps_str(chars) ==
    <<"\"">> \o concat([i \in 1..Len(chars) |-> json_escape_char(chars[i])]) \o <<"\"">>

RECURSIVE json_dumps(_)
\* json.dumps(v) with the default separators
json_dumps(v) ==
    CASE v.t = "str" -> json_dumps_str(v.s)
      [] v.t = "NoneType" -> <<"n", "u", "l", "l">>
      [] v.t = "bool" -> py_lower(v.s)
      [] v.t = "list" ->
            <<"[">> \o join(<<",", " ">>, [i \in 1..Len(v.items) |-> json_dumps(v.items[i][2])]) \o <<"]">>
      [] v.t = "dict" ->
            <<"{">> \o join(<<",", " ">>, [i \in 1..Len(v.items) |->
                        json_dumps_str(v.items[i][1]) \o <<":", " ">> \o json_dumps(v.items[i][2])]) \o <<"}">>
      [] OTHER -> v.s

\* the result of a parsing step: the value and the index after it
Parsed(v, i) == [ok |-> TRUE, val |-> v, pos |-> i]
ParseError == [ok |-> FALSE, val |-> PyNone, pos |-> 0]

RECURSIVE skip_ws(_, _)
skip_ws(txt, i) ==
    IF i <= Len(txt) /\ txt[i] \in JSON_WS THEN skip_ws(txt, i + 1) ELSE i

\* txt holds word at index i
at_word(txt, i, word) ==
    /\ i + Len(word) - 1 <= Len(txt)
    /\ \A k \in 1..Len(word) : txt[i + k - 1] = word[k]

RECURSIVE scan_string(_, _, _)
\* the characters of a JSON string up to its closing quote; i is past the opening one
scan_string(txt, i, acc) ==
    LET stops == {j \in i..Len(txt) : txt[j] \in ({"\"", "\\"} \cup CONTROL)} IN
    IF stops = {} THEN ParseError
    ELSE LET j == CHOOSE m \in stops : \A k \in stops : m <= k
             run == acc \o SubSeq(txt, i, j - 1)
         IN
         IF txt[j] = "\"" THEN Parsed(PyStr(run), j + 1)
         ELSE IF txt[j] \in CONTROL THEN ParseError
         ELSE IF j + 1 > Len(txt) THEN ParseError
         ELSE LET e == txt[j + 1] IN
              CASE e \in {"\"", "\\", "/"} -> scan_string(txt, j + 2, Append(run, e))
                [] e = "n" -> scan_string(txt, j + 2, Append(run, "\n"))
                [] e = "t" -> scan_string(txt, j + 2, Append(run, "\t"))
                [] e = "r" -> scan_string(txt, j + 2, Append(run, "\r"))
                [] e = "f" -> scan_string(txt, j + 2, Append(run, "\f"))
                [] e = "u" /\ j + 2 <= Len(txt) /\ txt[j + 2] \in GLYPH_CHARS ->
                     scan_string(txt, j + 3, Append(run, txt[j + 2]))
                [] OTHER -> ParseError

RECURSIVE scan_digits(_, _)
\* the index after the run of digits at i
scan_digits(txt, i) ==
    IF i <= Len(txt) /\ txt[i] \in DIGITS THEN scan_digits(txt, i + 1) ELSE i

\* an integer: -? (0 | [1-9][0-9]*)
parse_int(txt, i) ==
    LET d == IF i <= Len(txt) /\ txt[i] = "-" THEN i + 1 ELSE i
        e == IF d <= Len(txt) /\ txt[d] = "0" THEN d + 1 ELSE scan_digits(txt, d)
        digits == SubSeq(txt, d, e - 1)
    IN IF e = d THEN ParseError
       ELSE Parsed(PyInt(IF d > i /\ digits # <<"0">> THEN <<"-">> \o digits ELSE digits), e)

\* d[k] = v on the entries of a dict: a key it holds keeps its place
dict_set(items, k, v) ==
    IF dict_has(items, k)
    THEN [i \in 1..Len(items) |-> IF items[i][1] = k THEN <<k, v>> ELSE items[i]]
    ELSE Append(items, <<k, v>>)

RECURSIVE parse_value(_, _)
RECURSIVE parse_elements(_, _, _)
RECURSIVE parse_members(_, _, _)

\* the elements of an array after "[" or ","; i is at the next element
parse_elements(txt, i, acc) ==
    LET v == parse_value(txt, i) IN
    IF ~v.ok THEN ParseError
    ELSE LET j == skip_ws(txt, v.pos) IN
         IF j > Len(txt) THEN ParseError
         ELSE IF txt[j] = "]" THEN Parsed(PyList(Append(acc, v.val)), j + 1)
         ELSE IF txt[j] = "," THEN parse_elements(txt, skip_ws(txt, j + 1), Append(acc, v.val))
         ELSE ParseError

\* the members of an object after "{" or ","; i is at the next key
parse_members(txt, i, acc) ==
    IF i > Len(txt) \/ txt[i] # "\"" THEN ParseError
    ELSE LET k == scan_string(txt, i + 1, <<>>) IN
         IF ~k.ok THEN ParseError
         ELSE LET c == skip_ws(txt, k.pos) IN
              IF c > Len(txt) \/ txt[c] # ":" THEN ParseError
              ELSE LET v == parse_value(txt, skip_ws(txt, c + 1)) IN
                   IF ~v.ok THEN ParseError
                   ELSE LET j == skip_ws(txt, v.pos)
                            now == dict_set(acc, k.val.s, v.val)
                        IN IF j > Len(txt) THEN ParseError
                           ELSE IF txt[j] = "}" THEN Parsed(PyDict(now), j + 1)
                           ELSE IF txt[j] = "," THEN parse_members(txt, skip_ws(txt, j + 1), now)
                           ELSE ParseError

\* one JSON value at i
parse_value(txt, i) ==
    IF i > Len(txt) THEN ParseError
    ELSE CASE txt[i] = "\"" -> scan_string(txt, i + 1, <<>>)
           [] txt[i] = "{" ->
                LET j == skip_ws(txt, i + 1) IN
                IF j <= Len(txt) /\ txt[j] = "}" THEN Parsed(PyDict(<<>>), j + 1)
                ELSE parse_members(txt, j, <<>>)
           [] txt[i] = "[" ->
                LET j == skip_ws(txt, i + 1) IN
                IF j <= Len(txt) /\ txt[j] = "]" THEN Parsed(PyList(<<>>), j + 1)
                ELSE parse_elements(txt, j, <<>>)
           [] at_word(txt, i, <<"t", "r", "u", "e">>) -> Parsed(PyBool(TRUE), i + 4)
           [] at_word(txt, i, <<"f", "a", "l", "s", "e">>) -> Parsed(PyBool(FALSE), i + 5)
           [] at_word(txt, i, <<"n", "u", "l", "l">>) -> Parsed(PyNone, i + 4)
           [] OTHER -> parse_int(txt, i)

\* json.loads(txt) of a str: ok is FALSE where it raises json.JSONDecodeError
json_loads(txt) ==
    LET v == parse_value(txt, skip_ws(txt, 1)) IN
    IF v.ok /\ skip_ws(txt, v.pos) = Len(txt) + 1 THEN v ELSE ParseError

(***************************************************************************)
(* Events, responses and the outcome of an invocation                      *)
(***************************************************************************)
\* event.get(k, default): an event is [pathParameters |-> v, body |-> v],
\* with Missing for a key the event does not hold
event_get(ev, k, default) == IF ev[k] = Missing THEN default ELSE ev[k]

\* a response dict; keys are the keys it holds
Response(status, headers, body) ==
    [keys |-> {"statusCode", "headers", "body"}, statusCode |-> status,
     headers |-> headers, body |-> body]
\* a response dict without "headers"
ResponseNoHeaders(status, body) ==
    [keys |-> {"statusCode", "body"}, statusCode |-> status, headers |-> {}, body |-> body]
NoResponse == [keys |-> {}, statusCode |-> 0, headers |-> {}, body |-> <<>>]

JSON_HEADERS == {<<"Content-Type", "application/json">>}
TEXT_HEADERS == {<<"Content-Type", "text/plain">>}

\* the handler returned resp after n reads of MOOD_EMOJI_MAP
Return(resp, n) == [kind |-> "return", exc |-> "", resp |-> resp, reads |-> n]
\* the exception exc left the handler
Raise(exc, n) == [kind |-> "raise", exc |-> exc, resp |-> NoResponse, reads |-> n]
\* the outcome variable: nothing invoked yet, and the outcome r of an invocation
NoOutcome == [kind |-> "none", exc |-> "", resp |-> NoResponse]
Outcome(r) == [kind |-> r.kind, exc |-> r.exc, resp |-> r.resp]

K_mood == <<"m", "o", "o", "d">>
K_user == <<"u", "s", "e", "r">>
K_text == <<"t", "e", "x", "t">>
K_a == <<"a">>
K_b == <<"b">>
K_emoji == <<"e", "m", "o", "j", "i">>
K_message == <<"m", "e", "s", "s", "a", "g", "e">>
K_error == <<"e", "r", "r", "o", "r">>
K_previous_emoji == <<"p", "r", "e", "v", "i", "o", "u", "s", "_", "e", "m", "o", "j", "i">>
K_updated_emoji == <<"u", "p", "d", "a", "t", "e", "d", "_", "e", "m", "o", "j", "i">>
K_greeting == <<"g", "r", "e", "e", "t", "i", "n", "g">>
K_method == <<"m", "e", "t", "h", "o", "d">>

(***************************************************************************)
(* api/emoji/{mood}/handler.py                                             *)
(***************************************************************************)
emoji_lambda_handler(map, ev) ==
    LET pp == event_get(ev, "pathParameters", PyDict(<<>>)) IN
    IF pp.t # "dict" THEN Raise("AttributeError", 0)
    ELSE LET mood == dict_get(pp.items, K_mood, PyStr(<<"n", "e", "u", "t", "r", "a", "l">>)) IN
         IF mood.t # "str" THEN Raise("AttributeError", 0)
         ELSE LET emoji == get_emoji_for_mood(map, mood.s) IN
              Return(Response(200, JSON_HEADERS,
                              <<"{", "\"", "m", "o", "o", "d", "\"", ":", " ", "\"">> \o mood.s \o <<"\"", ",", " ", "\"", "e", "m", "o", "j", "i", "\"", ":", " ", "\"">> \o emoji \o <<"\"", "}">>), 1)

(***************************************************************************)
(* api/emoji/{mood}/put/handler.py                                         *)
(***************************************************************************)
\* the names emoji_layer.py defines
EMOJI_LAYER_NAMES == {"MOOD_EMOJI_MAP", "get_emoji_for_mood", "get_available_moods"}

\* from emoji_layer import name (line 7): FALSE where it raises ImportError
import_from_emoji_layer(name) == name \in EMOJI_LAYER_NAMES

\* a call of the function of emoji_layer bound to name
call_emoji_layer(name, map, m) ==
    IF name = "get_emoji_for_mood" THEN get_emoji_for_mood(map, m) ELSE <<>>

\* the body of handler, run once the module is loaded
emoji_put_handler(map, ev) ==
    LET pp == event_get(ev, "pathParameters", PyDict(<<>>)) IN
    IF pp.t # "dict" THEN Raise("AttributeError", 0)
    ELSE LET mood == dict_get(pp.items, K_mood, PyStr(<<"n", "e", "u", "t", "r", "a", "l">>))
             raw == event_get(ev, "body", PyStr(<<"{", "}">>))
         IN
         IF raw.t # "str" THEN Raise("TypeError", 0)
         ELSE LET body == json_loads(raw.s) IN
         IF ~body.ok
         THEN Return(Response(400, JSON_HEADERS,
                  json_dumps(PyDict(<< <<K_error, PyStr(<<"I", "n", "v", "a", "l", "i", "d", " ", "J", "S", "O", "N", " ", "i", "n", " ", "r", "e", "q", "u", "e", "s", "t", " ", "b", "o", "d", "y">>)>> >>))), 0)
         ELSE IF body.val.t # "dict" THEN Raise("AttributeError", 0)
         ELSE LET custom_emoji == dict_get(body.val.items, K_emoji, PyNone) IN
         IF ~py_truthy(custom_emoji)
         THEN Return(Response(400, JSON_HEADERS,
                  json_dumps(PyDict(<< <<K_error, PyStr(<<"M", "i", "s", "s", "i", "n", "g", " ", "'", "e", "m", "o", "j", "i", "'", " ", "f", "i", "e", "l", "d", " ", "i", "n", " ", "r", "e", "q", "u", "e", "s", "t", " ", "b", "o", "d", "y">>)>> >>))), 0)
         ELSE IF mood.t # "str" THEN Raise("AttributeError", 0)
         ELSE LET current_emoji == call_emoji_layer("get_emoji", map, mood.s) IN
              Return(Response(200, JSON_HEADERS,
                  json_dumps(PyDict(<<
                      <<K_mood, mood>>,
                      <<K_previous_emoji, PyStr(current_emoji)>>,
                      <<K_updated_emoji, custom_emoji>>,
                      <<K_message, PyStr(<<"E", "m", "o", "j", "i", " ", "f", "o", "r", " ", "'">> \o mood.s \o <<"'", " ", "u", "p", "d", "a", "t", "e", "d", " ", "f", "r", "o", "m", " ">>
                                         \o current_emoji \o <<" ", "t", "o", " ">> \o py_str(custom_emoji))>>,
                      <<K_method, PyStr(<<"P", "U", "T">>)>> >>))), 1)

\* an invocation: the runtime loads the module (lines 1-7), then calls handler
emoji_put_invoke(map, ev) ==
    IF ~import_from_emoji_layer("get_emoji") THEN Raise("ImportError", 0)
    ELSE emoji_put_handler(map, ev)

(***************************************************************************)
(* api/hello/{user}/handler.py and api/hello/{user}/post/handler.py        *)
(***************************************************************************)
hello_lambda_handler(ev) ==
    LET pp == event_get(ev, "pathParameters", PyDict(<<>>)) IN
    IF pp.t # "dict" THEN Raise("AttributeError", 0)
    ELSE LET user == dict_get(pp.items, K_user, PyStr(<<"A", "n", "o", "n", "y", "m", "o", "u", "s">>)) IN
         Return(Response(200, JSON_HEADERS,
                         <<"{", "\"", "m", "e", "s", "s", "a", "g", "e", "\"", ":", " ", "\"", "H", "e", "l", "l", "o", ",", " ">> \o py_str(user) \o <<"!", "\"", "}">>), 0)

hello_post_handler(ev) ==
    LET pp == event_get(ev, "pathParameters", PyDict(<<>>)) IN
    IF pp.t # "dict" THEN Raise("AttributeError", 0)
    ELSE LET user == dict_get(pp.items, K_user, PyStr(<<"A", "n", "o", "n", "y", "m", "o", "u", "s">>))
             raw == event_get(ev, "body", PyStr(<<"{", "}">>))
         IN
         IF raw.t # "str" THEN Raise("TypeError", 0)
         ELSE LET body == json_loads(raw.s) IN
         IF ~body.ok
         THEN Return(ResponseNoHeaders(400,
                  json_dumps(PyDict(<< <<K_error, PyStr(<<"I", "n", "v", "a", "l", "i", "d", " ", "J", "S", "O", "N", " ", "i", "n", " ", "r", "e", "q", "u", "e", "s", "t", " ", "b", "o", "d", "y">>)>> >>))), 0)
         ELSE IF body.val.t # "dict" THEN Raise("AttributeError", 0)
         ELSE LET custom_message == dict_get(body.val.items, K_message, PyStr(<<"H", "e", "l", "l", "o">>))
                  greeting == py_str(custom_message) \o <<",", " ">> \o py_str(user)
                              \o <<"!", " ", "T", "h", "a", "n", "k", "s", " ", "f", "o", "r", " ", "p", "o", "s", "t", "i", "n", "g", ".">>
              IN Return(Response(201, JSON_HEADERS,
                     json_dumps(PyDict(<<
                         <<K_user, user>>,
                         <<K_greeting, PyStr(greeting)>>,
                         <<K_method, PyStr(<<"P", "O", "S", "T">>)>> >>))), 0)

(***************************************************************************)
(* api/cow/{text}/handler.py                                               *)
(***************************************************************************)
\* cowsay.get_output_string('cow', text), a third-party library: the text in
\* a speech bubble above the drawing of the cow (one character here)
cowsay_get_output_string(txt) == <<"<", " ">> \o txt \o <<" ", ">">> \o <<"\n", "COW">>

cow_lambda_handler(ev) ==
    LET pp == event_get(ev, "pathParameters", PyDict(<<>>)) IN
    IF pp.t # "dict" THEN Raise("AttributeError", 0)
    ELSE LET text == dict_get(pp.items, K_text, PyStr(<<"H", "e", "l", "l", "o", " ", "W", "o", "r", "l", "d", "!">>)) IN
         IF text.t # "str" THEN Raise("TypeError", 0)
         ELSE Return(Response(200, TEXT_HEADERS, cowsay_get_output_string(text.s)), 0)

(***************************************************************************)
(* api/add/[a]/[b]/handler.py                                              *)
(* A float is [neg |-> sign bit, halves |-> magnitude in units of 0.5]:    *)
(* the inputs of the model are the decimal texts a binary64 holds exactly, *)
(* so that + is exact.                                                     *)
(***************************************************************************)
DIGIT_SEQ == <<"0", "1", "2", "3", "4", "5", "6", "7", "8", "9">>

digit_value(c) == (CHOOSE i \in 1..10 : DIGIT_SEQ[i] = c) - 1

RECURSIVE nat_value(_)
\* the number a run of digits writes
nat_value(digits) ==
    IF digits = <<>> THEN 0
    ELSE 10 * nat_value(SubSeq(digits, 1, Len(digits) - 1)) + digit_value(digits[Len(digits)])

RECURSIVE nat_digits(_)
\* the digits of a natural number
nat_digits(n) ==
    IF n < 10 THEN <<DIGIT_SEQ[n + 1]>> ELSE nat_digits(n \div 10) \o <<DIGIT_SEQ[(n % 10) + 1]>>

RECURSIVE strip_zeros(_)
strip_zeros(digits) ==
    IF digits # <<>> /\ digits[Len(digits)] = "0"
    THEN strip_zeros(SubSeq(digits, 1, Len(digits) - 1))
    ELSE digits

\* float(chars) of a str without exponent, inf, nan or underscores:
\* whitespace around, a sign, digits with at most one point and at least one digit.
\* ok is FALSE where float() raises ValueError; exact tells whether the
\* value is a multiple of 0.5
float_parse(chars) ==
    LET t == py_strip(chars)
        signed == t # <<>> /\ t[1] \in {"+", "-"}
        r == IF signed THEN Tail(t) ELSE t
        i1 == scan_digits(r, 1)
        i2 == IF i1 <= Len(r) /\ r[i1] = "." THEN scan_digits(r, i1 + 1) ELSE i1
        whole == SubSeq(r, 1, i1 - 1)
        frac == strip_zeros(SubSeq(r, i1 + 1, i2 - 1))
    IN IF i2 # Len(r) + 1 \/ Len(whole) + (i2 - i1 - (IF i2 > i1 THEN 1 ELSE 0)) = 0
       THEN [ok |-> FALSE, exact |-> TRUE, neg |-> FALSE, halves |-> 0]
       ELSE [ok |-> TRUE, exact |-> frac \in {<<>>, <<"5">>},
             neg |-> signed /\ t[1] = "-",
             halves |-> 2 * nat_value(whole) + (IF frac = <<"5">> THEN 1 ELSE 0)]

\* type(v).__name__
type_name(v) ==
    CASE v.t = "NoneType" -> <<"N", "o", "n", "e", "T", "y", "p", "e">>
      [] v.t = "bool" -> <<"b", "o", "o", "l">>
      [] v.t = "list" -> <<"l", "i", "s", "t">>
      [] v.t = "dict" -> <<"d", "i", "c", "t">>
      [] OTHER -> <<"s", "t", "r">>

\* float(v): exc names the exception raised, "" when none is
py_float(v) ==
    CASE v.t = "str" ->
            LET f == float_parse(v.s) IN
            [exc |-> IF f.ok THEN "" ELSE "ValueError", neg |-> f.neg, halves |-> f.halves,
             msg |-> <<"c", "o", "u", "l", "d", " ", "n", "o", "t", " ", "c", "o", "n", "v", "e", "r", "t", " ", "s", "t", "r", "i", "n", "g", " ", "t", "o", " ", "f", "l", "o", "a", "t", ":", " ">> \o repr_str(v.s)]
      [] v.t = "int" ->
            [exc |-> "", neg |-> v.s[1] = "-", halves |-> 2 * nat_value(v.s), msg |-> <<>>]
      [] OTHER ->
            [exc |-> "TypeError", neg |-> FALSE, halves |-> 0,
             msg |-> <<"f", "l", "o", "a", "t", "(", ")", " ", "a", "r", "g", "u", "m", "e", "n", "t", " ", "m", "u", "s", "t", " ", "b", "e", " ", "a", " ", "s", "t", "r", "i", "n", "g", " ", "o", "r", " ", "a", " ", "r", "e", "a", "l", " ", "n", "u", "m", "b", "e", "r", ",", " ", "n", "o", "t", " ", "'">>
                     \o type_name(v) \o <<"'">>]

\* x + y of two floats (the sum of two zeros is -0.0 only when both are)
float_add(x, y) ==
    LET sx == IF x.neg THEN 0 - x.halves ELSE x.halves
        sy == IF y.neg THEN 0 - y.halves ELSE y.halves
        sum == sx + sy
    IN IF sum = 0 THEN [neg |-> x.neg /\ y.neg, halves |-> 0]
       ELSE [neg |-> sum < 0, halves |-> IF sum < 0 THEN 0 - sum ELSE sum]

\* repr(x) of a float, the conversion an f-string applies
float_repr(x) ==
    (IF x.neg THEN <<"-">> ELSE <<>>) \o nat_digits(x.halves \div 2)
        \o <<".", IF x.halves % 2 = 1 THEN "5" ELSE "0">>

add_error(msg) ==
    Return(Response(400, JSON_HEADERS,
                    <<"{", "\"", "e", "r", "r", "o", "r", "\"", ":", " ", "\"", "I", "n", "v", "a", "l", "i", "d", " ", "n", "u", "m", "b", "e", "r", "s", " ", "p", "r", "o", "v", "i", "d", "e", "d", ":", " ">> \o msg \o <<"\"", "}">>), 0)

add_lambda_handler(ev) ==
    LET path_params == event_get(ev, "pathParameters", PyDict(<<>>)) IN
    IF path_params.t # "dict" THEN Raise("AttributeError", 0)
    ELSE LET a == py_float(dict_get(path_params.items, K_a, PyInt(<<"0">>))) IN
         IF a.exc # "" THEN add_error(a.msg)
         ELSE LET b == py_float(dict_get(path_params.items, K_b, PyInt(<<"0">>))) IN
              IF b.exc # "" THEN add_error(b.msg)
              ELSE LET result == float_add(a, b) IN
                   Return(Response(200, JSON_HEADERS,
                       <<"{", "\"", "a", "\"", ":", " ">> \o float_repr(a) \o <<",", " ", "\"", "b", "\"", ":", " ">> \o float_repr(b)
                       \o <<",", " ", "\"", "r", "e", "s", "u", "l", "t", "\"", ":", " ">> \o float_repr(result) \o <<"}">>), 0)

(***************************************************************************)
(* The requests of the model                                               *)
(***************************************************************************)
\* the strings over alphabet of length at most n
Strs(alphabet, n) == UNION {[1..k -> alphabet] : k \in 0..n}

\* letters of the registered mood "sad", a capital, whitespace, and the quote
\* that ends a JSON string
MOOD_ALPHABET == {"s", "a", "d", "S", " ", "\""}
MoodStrings == Strs(MOOD_ALPHABET, MaxMoodLen)

NUM_ALPHABET == {"5", ".", "-", "a"}
\* the texts float() rejects and those whose value a binary64 holds exactly
NumStrings == {n \in Strs(NUM_ALPHABET, MaxNumLen) : float_parse(n).exact}

USERS == {<<"B", "o", "b">>, <<"a", "\"", "b">>, <<>>}

\* the pathParameters of an event: absent, null, empty, or holding the keys
PathParams(entries) ==
    {Missing, PyNone, PyDict(<<>>)} \cup {PyDict(e) : e \in entries}

\* request bodies
BODIES == {
    Missing,
    PyNone,
    PyStr(<<"n", "o", "t", " ", "j", "s", "o", "n">>),
    PyStr(<<>>),
    PyStr(<<"{", "}">>),
    PyStr(<<"{", "\"", "e", "m", "o", "j", "i", "\"", ":", " ", "\"">> \o <<"SKULL">> \o <<"\"", "}">>),
    PyStr(<<"{", "\"", "e", "m", "o", "j", "i", "\"", ":", " ", "\"", "a", "\\", "\"", "b", "\"", "}">>),
    PyStr(<<"{", "\"", "e", "m", "o", "j", "i", "\"", ":", " ", "\"", "\"", "}">>),
    PyStr(<<"{", "\"", "e", "m", "o", "j", "i", "\"", ":", " ", "0", "}">>),
    PyStr(<<"{", "\"", "e", "m", "o", "j", "i", "\"", ":", " ", "7", "}">>),
    PyStr(<<"{", "\"", "e", "m", "o", "j", "i", "\"", ":", " ", "n", "u", "l", "l", "}">>),
    PyStr(<<"{", "\"", "e", "m", "o", "j", "i", "\"", ":", " ", "f", "a", "l", "s", "e", "}">>),
    PyStr(<<"{", "\"", "e", "m", "o", "j", "i", "\"", ":", " ", "[", "]", "}">>),
    PyStr(<<"{", "\"", "e", "m", "o", "j", "i", "\"", ":", " ", "{", "}", "}">>),
    PyStr(<<"{", "\"", "e", "m", "o", "j", "i", "\"", ":", " ", "[", "1", "]", "}">>),
    PyStr(<<"{", "\"", "m", "e", "s", "s", "a", "g", "e", "\"", ":", " ", "\"", "H", "i", "\"", "}">>),
    PyStr(<<"{", "\"", "m", "e", "s", "s", "a", "g", "e", "\"", ":", " ", "n", "u", "l", "l", "}">>),
    PyStr(<<"[", "]">>),
    PyStr(<<"n", "u", "l", "l">>),
    PyStr(<<"5">>),
    PyStr(<<"\"", "t", "e", "x", "t", "\"">>) }

Event(pp, body) == [pathParameters |-> pp, body |-> body]
NoEvent == Event(Missing, Missing)

\* the pathParameters of the mood routes, of the hello routes and of the cow route
MoodParams == PathParams({<< <<K_mood, PyStr(m)>> >> : m \in MoodStrings})
UserParams == PathParams({<< <<K_user, PyStr(u)>> >> : u \in USERS})
TextParams == PathParams({<< <<K_text, PyStr(u)>> >> : u \in USERS})

\* a path parameter of the add route: a text, a double quote, null, or absent
NumValues == {PyStr(n) : n \in NumStrings} \cup {PyStr(<<"\"">>), PyNone, Missing}

\* the dict of the keys a and b that hold a value
AddParams(x, y) ==
    PyDict((IF x = Missing THEN <<>> ELSE << <<K_a, x>> >>)
           \o (IF y = Missing THEN <<>> ELSE << <<K_b, y>> >>))

(***************************************************************************)
(* Invocations: the host runs one handler on one event to completion       *)
(***************************************************************************)
Init ==
    /\ MOOD_EMOJI_MAP = InitialMap
    /\ invoked = "none"
    /\ event = NoEvent
    /\ outcome = NoOutcome
    /\ lookups = 0
    /\ written = FALSE
    /\ listed = <<>>
    /\ arg = <<>>
    /\ variant = <<>>
    /\ glyphs = <<>>

\* handler h ran on ev with result r; no handler assigns MOOD_EMOJI_MAP.
\* The execution environment serves one request at a time.
Invoke(h, ev, r) ==
    /\ invoked' = h
    /\ event' = ev
    /\ outcome' = Outcome(r)
    /\ lookups' = r.reads
    /\ written' = (written \/ h = "emoji_put")
    /\ UNCHANGED <<MOOD_EMOJI_MAP, listed, arg, variant, glyphs>>

InvokeAdd ==
    /\ invoked = "none"
    /\ \/ \E pp \in {Missing, PyNone} :
            Invoke("add", Event(pp, Missing), add_lambda_handler(Event(pp, Missing)))
       \/ \E x \in NumValues, y \in NumValues :
            Invoke("add", Event(AddParams(x, y), Missing),
                   add_lambda_handler(Event(AddParams(x, y), Missing)))

InvokeCow ==
    /\ invoked = "none"
    /\ \E pp \in TextParams :
         Invoke("cow", Event(pp, Missing), cow_lambda_handler(Event(pp, Missing)))

\* the read with MOOD_EMOJI_MAP.setdefault(mood_lower, default) in the place of .get
InvokeEmojiGet_setdefault ==
    /\ invoked = "none"
    /\ \E pp \in MoodParams :
         LET ev == Event(pp, Missing)
             r == emoji_lambda_handler(MOOD_EMOJI_MAP, ev)
             key == mood_lower(dict_get(pp.items, K_mood, PyStr(<<"n", "e", "u", "t", "r", "a", "l">>)).s)
         IN /\ invoked' = "emoji_get"
            /\ event' = ev
            /\ outcome' = Outcome(r)
            /\ lookups' = r.reads
            /\ MOOD_EMOJI_MAP' = IF r.kind = "return" /\ ~dict_has(MOOD_EMOJI_MAP, key)
                                 THEN Append(MOOD_EMOJI_MAP, <<key, SHRUG>>)
                                 ELSE MOOD_EMOJI_MAP
            /\ UNCHANGED <<written, listed, arg, variant, glyphs>>

InvokeEmojiGet ==
    /\ invoked = "none"
    /\ \E pp \in MoodParams :
         Invoke("emoji_get", Event(pp, Missing),
                emoji_lambda_handler(MOOD_EMOJI_MAP, Event(pp, Missing)))

InvokeEmojiPut ==
    /\ invoked = "none"
    /\ \E pp \in MoodParams, body \in BODIES :
         Invoke("emoji_put", Event(pp, body), emoji_put_invoke(MOOD_EMOJI_MAP, Event(pp, body)))

InvokeHelloGet ==
    /\ invoked = "none"
    /\ \E pp \in UserParams :
         Invoke("hello_get", Event(pp, Missing), hello_lambda_handler(Event(pp, Missing)))

InvokeHelloPost ==
    /\ invoked = "none"
    /\ \E pp \in UserParams, body \in BODIES :
         Invoke("hello_post", Event(pp, body), hello_post_handler(Event(pp, body)))

\* the host takes the response (or the error); the request and the response
\* do not outlive the invocation
Complete ==
    /\ invoked # "none"
    /\ invoked' = "none"
    /\ event' = NoEvent
    /\ outcome' = NoOutcome
    /\ lookups' = 0
    /\ UNCHANGED <<MOOD_EMOJI_MAP, written, listed, arg, variant, glyphs>>

ListMoods ==
    /\ invoked = "none"
    /\ listed' = get_available_moods(MOOD_EMOJI_MAP)
    /\ UNCHANGED <<MOOD_EMOJI_MAP, invoked, event, outcome, lookups, written, arg, variant, glyphs>>

Next ==
    \/ InvokeAdd
    \/ InvokeCow
    \/ InvokeEmojiGet
    \/ InvokeEmojiPut
    \/ InvokeHelloGet
    \/ InvokeHelloPost
    \/ Complete
    \/ ListMoods

Spec == Init /\ [][Next]_vars

(***************************************************************************)
(* Calls of the layer: get_emoji_for_mood on a mood and on a variant of it *)
(* that differs in letter case and in the whitespace around it             *)
(***************************************************************************)
\* whitespace put around a mood
PAD_CHARS == {"\n"}

\* the moods looked up: letters of the registered mood "sad", a capital, a space
LAYER_ALPHABET == {"s", "a", "d", "S", " "}
LayerMoods == Strs(LAYER_ALPHABET, MaxMoodLen)

swap_case(c) ==
    IF \E i \in 1..26 : UPPER[i] = c THEN LOWER[CHOOSE i \in 1..26 : UPPER[i] = c]
    ELSE IF \E i \in 1..26 : LOWER[i] = c THEN UPPER[CHOOSE i \in 1..26 : LOWER[i] = c]
    ELSE c

LayerInit ==
    /\ MOOD_EMOJI_MAP = InitialMap
    /\ invoked = "none"
    /\ event = NoEvent
    /\ outcome = NoOutcome
    /\ lookups = 0
    /\ written = FALSE
    /\ listed = <<>>
    /\ arg \in LayerMoods
    /\ variant = arg
    /\ glyphs = <<>>

LayerFrame == UNCHANGED <<MOOD_EMOJI_MAP, invoked, event, outcome, lookups, written, listed, arg>>

SwapCase ==
    /\ glyphs = <<>>
    /\ \E i \in 1..Len(variant) :
         /\ swap_case(variant[i]) # variant[i]
         /\ variant' = [variant EXCEPT ![i] = swap_case(variant[i])]
    /\ UNCHANGED glyphs
    /\ LayerFrame

PadLeft ==
    /\ glyphs = <<>>
    /\ Len(variant) < MaxVariantLen
    /\ \E c \in PAD_CHARS : variant' = <<c>> \o variant
    /\ UNCHANGED glyphs
    /\ LayerFrame

PadRight ==
    /\ glyphs = <<>>
    /\ Len(variant) < MaxVariantLen
    /\ \E c \in PAD_CHARS : variant' = Append(variant, c)
    /\ UNCHANGED glyphs
    /\ LayerFrame

TrimLeft ==
    /\ glyphs = <<>>
    /\ variant # <<>>
    /\ Head(variant) \in WHITESPACE
    /\ variant' = Tail(variant)
    /\ UNCHANGED glyphs
    /\ LayerFrame

TrimRight ==
    /\ glyphs = <<>>
    /\ variant # <<>>
    /\ variant[Len(variant)] \in WHITESPACE
    /\ variant' = SubSeq(variant, 1, Len(variant) - 1)
    /\ UNCHANGED glyphs
    /\ LayerFrame

GetEmojiForMood ==
    /\ glyphs = <<>>
    /\ glyphs' = <<get_emoji_for_mood(MOOD_EMOJI_MAP, arg),
                   get_emoji_for_mood(MOOD_EMOJI_MAP, variant)>>
    /\ UNCHANGED variant
    /\ LayerFrame

LayerNext ==
    \/ SwapCase
    \/ PadLeft
    \/ PadRight
    \/ TrimLeft
    \/ TrimRight
    \/ GetEmojiForMood

SpecLayer == LayerInit /\ [][LayerNext]_vars

(***************************************************************************)
(* Properties                                                              *)
(***************************************************************************)
returned == outcome.kind = "return"

\* the response body read back as JSON
Decoded == json_loads(outcome.resp.body)

\* the value of key k in the decoded body, Missing when it holds none
Field(k) ==
    IF Decoded.ok /\ Decoded.val.t = "dict" THEN dict_get(Decoded.val.items, k, Missing)
    ELSE Missing

\* the path parameter k of the request, or the default
PathParam(k, default) ==
    IF event.pathParameters.t = "dict"
    THEN dict_get(event.pathParameters.items, k, PyStr(default))
    ELSE PyStr(default)

\* the request body read as JSON, an absent body standing for {}
RequestJson ==
    IF event.body = Missing THEN json_loads(<<"{", "}">>)
    ELSE IF event.body.t = "str" THEN json_loads(event.body.s)
    ELSE ParseError

\* the 'emoji' value of the request body, Missing when it carries none
RequestEmoji ==
    IF RequestJson.ok /\ RequestJson.val.t = "dict"
    THEN dict_get(RequestJson.val.items, K_emoji, Missing)
    ELSE Missing

\* the body {"error": msg}
ErrorBody(msg) == json_dumps(PyDict(<< <<K_error, PyStr(msg)>> >>))

\* C1: every invocation of every handler ends by returning a response; no
\* exception leaves the handler
C1_NoExceptionEscapes == invoked # "none" => returned

\* C2: a PUT whose body is JSON with a non-falsy 'emoji' returns 200 with mood
\* the path parameter (or neutral), previous_emoji the registry's glyph for it
\* (the fallback when unmapped) and updated_emoji the supplied value
C2_WriteSuccess ==
    (invoked = "emoji_put" /\ RequestEmoji # Missing /\ py_truthy(RequestEmoji)) =>
        /\ returned
        /\ outcome.resp.statusCode = 200
        /\ Field(K_mood) = PathParam(K_mood, <<"n", "e", "u", "t", "r", "a", "l">>)
        /\ Field(K_previous_emoji) =
               PyStr(get_emoji_for_mood(MOOD_EMOJI_MAP, PathParam(K_mood, <<"n", "e", "u", "t", "r", "a", "l">>).s))
        /\ Field(K_updated_emoji) = RequestEmoji

C4_MissingEmojiField ==
    (invoked = "emoji_put" /\ RequestJson.ok
        /\ (RequestEmoji = Missing \/ ~py_truthy(RequestEmoji))) =>
        /\ returned
        /\ outcome.resp.statusCode = 400
        /\ outcome.resp.body = ErrorBody(<<"M", "i", "s", "s", "i", "n", "g", " ", "'", "e", "m", "o", "j", "i", "'", " ", "f", "i", "e", "l", "d", " ", "i", "n", " ", "r", "e", "q", "u", "e", "s", "t", " ", "b", "o", "d", "y">>)
        /\ lookups = 0

\* C5: a PUT whose body is not JSON returns 400 {"error": "Invalid JSON in
\* request body"}, never the missing-field answer
C5_MalformedJson ==
    (invoked = "emoji_put" /\ event.body.t = "str" /\ ~RequestJson.ok) =>
        /\ returned
        /\ outcome.resp.statusCode = 400
        /\ outcome.resp.body = ErrorBody(<<"I", "n", "v", "a", "l", "i", "d", " ", "J", "S", "O", "N", " ", "i", "n", " ", "r", "e", "q", "u", "e", "s", "t", " ", "b", "o", "d", "y">>)

\* c is the letter l or its capital
SameLetter(c, l) ==
    \/ c = l /\ ~(\E n \in 1..26 : UPPER[n] = c)
    \/ \E n \in 1..26 : UPPER[n] = c /\ LOWER[n] = l

\* k is m without the whitespace around it and in lower case
IsNormalOf(m, k) ==
    \E i \in 0..(Len(m) - Len(k)) :
        LET j == Len(m) - Len(k) - i IN
        /\ \A p \in 1..i : m[p] \in WHITESPACE
        /\ \A p \in (Len(m) - j + 1)..Len(m) : m[p] \in WHITESPACE
        /\ Len(k) > 0 => (m[i + 1] \notin WHITESPACE /\ m[Len(m) - j] \notin WHITESPACE)
        /\ \A p \in 1..Len(k) : SameLetter(m[i + p], k[p])

\* glyph is what the registry answers for m: the glyph of the registered key
\* m normalizes to, the fallback when there is none, and never empty
AnswerFor(m, glyph) ==
    /\ glyph # <<>>
    /\ \A n \in 1..Len(InitialMap) :
           IsNormalOf(m, InitialMap[n][1]) => glyph = InitialMap[n][2]
    /\ (\A n \in 1..Len(InitialMap) : ~IsNormalOf(m, InitialMap[n][1])) => glyph = SHRUG

\* C6: get_emoji_for_mood is total: for every mood string it returns a
\* non-empty glyph, the mapped one when the normalized mood is registered and
\* the fallback otherwise
C6_LookupTotal ==
    glyphs # <<>> => AnswerFor(arg, glyphs[1]) /\ AnswerFor(variant, glyphs[2])

\* the registered mood sad, capitalised and with whitespace around it, looked up
C6_Witness ==
    /\ glyphs # <<>>
    /\ variant = <<"\n", "S", "A", "d", "\n">>
    /\ glyphs[2] = <<"CRYING_FACE">>
    /\ glyphs[1] # SHRUG

\* C7: two moods that differ only in letter case and in the whitespace around
\* them have the same normalized form and the same glyph, and normalizing a
\* normalized mood changes nothing
C7_CaseWhitespaceInsensitive ==
    /\ mood_lower(variant) = mood_lower(arg)
    /\ mood_lower(mood_lower(variant)) = mood_lower(variant)
    /\ glyphs # <<>> => glyphs[1] = glyphs[2]

\* sad looked up beside a variant of it that differs in case and whitespace
C7_Witness ==
    /\ glyphs # <<>>
    /\ arg = <<"s", "a", "d">>
    /\ variant = <<"\n", "S", "a", "D", "\n">>
    /\ glyphs[1] = <<"CRYING_FACE">>

\* C8: every GET /emoji/{mood} returns 200 with the JSON body {"mood": the raw
\* path parameter or neutral, "emoji": the registry's glyph for it}
C8_ReadHandler ==
    invoked = "emoji_get" =>
        /\ returned
        /\ outcome.resp.statusCode = 200
        /\ Field(K_mood) = PathParam(K_mood, <<"n", "e", "u", "t", "r", "a", "l">>)
        /\ Field(K_emoji) =
               PyStr(get_emoji_for_mood(MOOD_EMOJI_MAP, PathParam(K_mood, <<"n", "e", "u", "t", "r", "a", "l">>).s))

\* the path parameter k of the add route as a float: 0 when absent
Operand(k) ==
    IF event.pathParameters.t = "dict"
    THEN py_float(dict_get(event.pathParameters.items, k, PyInt(<<"0">>)))
    ELSE py_float(PyInt(<<"0">>))

\* the path parameter k of the add route is a string float() rejects
NonNumeric(k) == PathParam(k, <<"0">>).t = "str" /\ Operand(k).exc = "ValueError"

\* txt holds part
Embeds(txt, part) ==
    \E i \in 1..(Len(txt) - Len(part) + 1) : SubSeq(txt, i, i + Len(part) - 1) = part

\* C9: the add handler returns 400 with the parse failure in its error when a
\* or b is a non-numeric string, and otherwise 200 with both operands and
\* their sum (a missing parameter counting as 0); it returns no other status
C9_Arithmetic ==
    (invoked = "add" /\ PathParam(K_a, <<"0">>).t = "str" /\ PathParam(K_b, <<"0">>).t = "str") =>
        /\ returned
        /\ IF NonNumeric(K_a) \/ NonNumeric(K_b)
           THEN /\ outcome.resp.statusCode = 400
                /\ Field(K_error) # Missing
                /\ Embeds(outcome.resp.body,
                          IF NonNumeric(K_a) THEN Operand(K_a).msg ELSE Operand(K_b).msg)
           ELSE /\ outcome.resp.statusCode = 200
                /\ outcome.resp.body =
                       <<"{", "\"", "a", "\"", ":", " ">> \o float_repr(Operand(K_a)) \o <<",", " ", "\"", "b", "\"", ":", " ">>
                       \o float_repr(Operand(K_b)) \o <<",", " ", "\"", "r", "e", "s", "u", "l", "t", "\"", ":", " ">>
                       \o float_repr(float_add(Operand(K_a), Operand(K_b))) \o <<"}">>

\* C10: every response of every handler holds statusCode (200, 201 or 400),
\* headers with a Content-Type, and body; only the POST greeting answers 201
C10_ResponseShape ==
    returned =>
        /\ outcome.resp.keys = {"statusCode", "headers", "body"}
        /\ outcome.resp.statusCode \in {200, 201, 400}
        /\ \E h \in outcome.resp.headers : h[1] = "Content-Type"
        /\ outcome.resp.statusCode = 201 => invoked = "hello_post"

====
